---- MODULE Spec2Model ----
(***************************************************************************)
(* Model of src/helper.py: one monitoring session of the drowning          *)
(* detector.  The four play_* functions (play_youtube_video,               *)
(* play_rtsp_stream, play_webcam, play_stored_video) run the same loop;    *)
(* the line numbers below are those of play_webcam (204-260), and of       *)
(* _display_detected_frames (36-78), autoplay_audio (331-343) and          *)
(* send_message (348-379).                                                 *)
(*                                                                         *)
(* Time is the value time.time() returns, in whole ticks.  Every call of   *)
(* an external collaborator (capture, classifier, file system, HTTP,       *)
(* Twilio) has its outcome chosen nondeterministically among the outcomes  *)
(* the call can have: a value, or a raised exception.                      *)
(***************************************************************************)
EXTENDS Integers, Sequences, FiniteSets

\* ---------------------------------------------------------------- bounds
MaxFrames == 7      \* frames the source yields at most in one session
MaxTime   == 6      \* last clock tick of a session
MaxStep   == 2      \* largest advance of time.time() between two readings
MaxLabel  == 1      \* largest class id of the detector

\* ------------------------------------------------------------- constants
HazardLabel == 0                    \* `== 0` in the verdict test, line 242
Labels      == 0..MaxLabel          \* class ids of the detector
Timeouts    == {2, 5}               \* values of settings.timeout (seconds)

\* res[0].boxes.cls, one class id per detected box: no box, one box, or
\* several boxes (two stand for any larger number)
Detections == {<<>>} \cup {<<a>> : a \in Labels} \cup {<<a, b>> : a, b \in Labels}

\* An entry of runs/detect: its name, whether os.path.isdir holds of it, and
\* who wrote what it holds (an earlier session, or this one)
Entry(name, kind, from) == [name |-> name, kind |-> kind, from |-> from]

\* Contents of runs/detect a session can start with: a file only; the predict
\* directory of an earlier run and a file; that, and one more directory
InitialRoots ==
    { {Entry("labels.txt", "file", "earlier")},
      {Entry("predict", "dir", "earlier"), Entry("labels.txt", "file", "earlier")},
      {Entry("predict", "dir", "earlier"), Entry("track", "dir", "earlier"),
       Entry("labels.txt", "file", "earlier")} }

\* The entries os.path.isdir holds of, and the others
Dirs(r)  == {e \in r : e.kind = "dir"}
Files(r) == {e \in r : e.kind = "file"}

\* The loop over os.listdir(directory) when every shutil.rmtree returns
RemoveDirs(r) == r \ Dirs(r)

\* model.predict/track(..., save=True, name='predict'): the annotated image is
\* written to runs/detect/predict, or to a fresh predict2 when predict exists
SavePrediction(r) ==
    IF \E e \in r : e.name = "predict"
    THEN {e \in r : e.name # "predict2"} \cup {Entry("predict2", "dir", "session")}
    ELSE r \cup {Entry("predict", "dir", "session")}

\* glob.glob("runs/detect/predict/*.jpg"): the images send_message can pick
PredictImages(r) == {e \in r : e.name = "predict" /\ e.kind = "dir"}

VARIABLES
    pc,          \* position of the session's control
    clock,       \* time.time()
    timeout,     \* settings.timeout
    opened,      \* vid_cap.isOpened()
    frames,      \* frames read so far
    s,           \* window start (local s)
    n,           \* time of the current frame (local n)
    dcls,        \* the label window (local dcls)
    detectCls,   \* classes of the current frame (local detectCls)
    error,       \* st.sidebar.error was called: the failure was surfaced
    s0,          \* history: value of s when the session started
    alerts,      \* history: send_message invocations of the session
    elapsed,     \* history, this iteration: the window test was true
    verdict,     \* history, this iteration: <<v>> once max(...) returned v
    raised,      \* history, this iteration: where an exception was raised
    sends,       \* history, this iteration: send_message invocations
    uploads,     \* history, this iteration: requests.post calls
    transports,  \* history, this iteration: client.messages.create calls
    uploadStatus, \* history, this iteration: outcome of requests.post
    root,        \* entries of the directory runs/detect
    cause,       \* history: why the capture gave no frame
    classified,  \* history: model.predict / model.track calls of the session
    lastEval,    \* history: <<t>> once a window test was true at time t
    recorded,    \* history, this iteration: dcls.append calls
    imageFrom    \* history, this iteration: origin of the image send_message read

session == <<clock, timeout, opened, frames, s, n, dcls, detectCls, error, s0, alerts>>
iter    == <<elapsed, verdict, raised, sends, uploads, transports, uploadStatus>>
extra   == <<root, cause, classified, lastEval, recorded, imageFrom>>
vars    == <<pc, session, iter, extra>>

\* ------------------------------------------------------- pure functions

\* Counter(dcls)[l]
Count(seq, l) == Cardinality({i \in 1..Len(seq) : seq[i] = l})

\* Index of the first occurrence of l in seq (l occurs in seq)
FirstIndex(seq, l) == CHOOSE i \in 1..Len(seq) :
                        seq[i] = l /\ \A j \in 1..(i-1) : seq[j] # l

\* Keys of Counter(seq) in iteration order: a dict keeps insertion order, so
\* each distinct label once, ordered by first occurrence.
RECURSIVE CounterKeys(_)
CounterKeys(seq) ==
    IF seq = <<>> THEN <<>>
    ELSE LET front == CounterKeys(SubSeq(seq, 1, Len(seq) - 1))
             last  == seq[Len(seq)]
         IN IF \E i \in 1..Len(front) : front[i] = last
            THEN front ELSE Append(front, last)

\* Variant of KeepGreater: a later item with an equal key replaces the maximum
KeepGreaterOrEqual(best, k, seq) == IF Count(seq, k) >= Count(seq, best) THEN k ELSE best

\* One step of max(iterable, key=f): the running maximum is replaced only by
\* an item whose key is strictly greater.
KeepGreater(best, k, seq) == IF Count(seq, k) > Count(seq, best) THEN k ELSE best

\* max(element_counts, key=element_counts.get) over keys[i..], starting from best
RECURSIVE MaxFrom(_, _, _, _)
MaxFrom(keys, i, best, seq) ==
    IF i > Len(keys) THEN best
    ELSE MaxFrom(keys, i + 1, KeepGreater(best, keys[i], seq), seq)

\* max(Counter(dcls), key=Counter(dcls).get), for a non-empty window
MostCommon(seq) == LET keys == CounterKeys(seq) IN MaxFrom(keys, 2, keys[1], seq)

\* Variant of Elapsed: the window also closes at exact equality
ElapsedAtEquality(now, start, dur) == now - start >= dur

\* n - s > settings.timeout
Elapsed(now, start, dur) == now - start > dur

NoIter == /\ elapsed = FALSE /\ verdict = <<>> /\ raised = "none"
          /\ sends = 0 /\ uploads = 0 /\ transports = 0 /\ uploadStatus = "none"

\* ------------------------------------------------------------------ Init
Init ==
    /\ pc = "idle"
    /\ clock = 0
    /\ timeout \in Timeouts
    /\ opened = FALSE
    /\ frames = 0
    /\ s = 0 /\ n = 0 /\ s0 = 0
    /\ dcls = <<>>
    /\ detectCls = <<>>
    /\ error = FALSE
    /\ alerts = 0
    /\ NoIter
    /\ root \in InitialRoots
    /\ cause = "none"
    /\ classified = 0
    /\ lastEval = <<>>
    /\ recorded = 0
    /\ imageFrom = "none"

\* --------------------------------------------------------------- actions

\* The 'Detect Drowing' button: s = time.time(); dcls = []
Start ==
    /\ pc = "idle"
    /\ s' = clock /\ s0' = clock
    /\ dcls' = <<>>
    /\ pc' = "open"
    /\ UNCHANGED <<clock, timeout, opened, frames, n, detectCls, error, alerts, iter>>
    /\ UNCHANGED <<root, cause, classified, lastEval, recorded, imageFrom>>

\* vid_cap = cv2.VideoCapture(source): the capture is open, or it is not
OpenSource ==
    /\ pc = "open"
    /\ \E ok \in BOOLEAN :
          /\ opened' = ok
          /\ cause' = IF ok THEN cause ELSE "not_opened"
    /\ pc' = "loop"
    /\ UNCHANGED <<clock, timeout, frames, s, n, dcls, detectCls, error, s0, alerts, iter>>
    /\ UNCHANGED <<root, classified, lastEval, recorded, imageFrom>>

\* Getting the source raises inside the outer try (YouTube(url), stream.url):
\* except Exception -> st.sidebar.error
OpenSourceRaises ==
    /\ pc = "open"
    /\ raised' = "open"
    /\ error' = TRUE
    /\ pc' = "failed"
    /\ UNCHANGED <<clock, timeout, opened, frames, s, n, dcls, detectCls, s0, alerts,
                   elapsed, verdict, sends, uploads, transports, uploadStatus>>
    /\ cause' = "not_opened"
    /\ UNCHANGED <<root, classified, lastEval, recorded, imageFrom>>

\* while vid_cap.isOpened(): true.  The per-iteration history starts afresh;
\* detectCls is dead here (assigned again before it is read).
LoopTest ==
    /\ pc = "loop"
    /\ opened
    /\ pc' = "read"
    /\ detectCls' = <<>>
    /\ elapsed' = FALSE /\ verdict' = <<>> /\ raised' = "none"
    /\ sends' = 0 /\ uploads' = 0 /\ transports' = 0 /\ uploadStatus' = "none"
    /\ UNCHANGED <<clock, timeout, opened, frames, s, n, dcls, error, s0, alerts>>
    /\ recorded' = 0
    /\ imageFrom' = "none"
    /\ UNCHANGED <<root, cause, classified, lastEval>>

\* while vid_cap.isOpened(): false, the function returns
LoopExit ==
    /\ pc = "loop"
    /\ ~opened
    /\ pc' = "completed"
    /\ UNCHANGED <<session, iter>>
    /\ UNCHANGED <<root, cause, classified, lastEval, recorded, imageFrom>>

\* success, image = vid_cap.read() with success; n = time.time()
ReadFrame ==
    /\ pc = "read"
    /\ frames < MaxFrames
    /\ \E d \in 0..MaxStep :
          /\ clock + d <= MaxTime
          /\ clock' = clock + d
    /\ n' = clock'
    /\ frames' = frames + 1
    /\ pc' = "cleanup"
    /\ UNCHANGED <<timeout, opened, s, dcls, detectCls, error, s0, alerts, iter>>
    /\ UNCHANGED <<root, cause, classified, lastEval, recorded, imageFrom>>

\* Variant of ReadFail: the frame is classified before success is tested
ReadFailClassifies ==
    /\ pc = "read"
    /\ opened' = FALSE
    /\ pc' = "completed"
    /\ UNCHANGED <<clock, timeout, frames, s, n, dcls, detectCls, error, s0, alerts, iter>>
    /\ \E c \in {"eof", "read_error"} : cause' = c
    /\ classified' = classified + 1
    /\ UNCHANGED <<root, lastEval, recorded, imageFrom>>

\* Variant of ReadFail: the open window is evaluated when the stream ends
ReadFailFlush ==
    /\ pc = "read"
    /\ opened' = FALSE
    /\ alerts' = IF dcls # <<>> /\ MostCommon(dcls) = HazardLabel THEN alerts + 1 ELSE alerts
    /\ pc' = "completed"
    /\ UNCHANGED <<clock, timeout, frames, s, n, dcls, detectCls, error, s0, iter>>
    /\ \E c \in {"eof", "read_error"} : cause' = c
    /\ UNCHANGED <<root, classified, lastEval, recorded, imageFrom>>

\* success is False: vid_cap.release(); break
ReadFail ==
    /\ pc = "read"
    /\ opened' = FALSE
    /\ pc' = "completed"
    /\ UNCHANGED <<clock, timeout, frames, s, n, dcls, detectCls, error, s0, alerts, iter>>
    /\ \E c \in {"eof", "read_error"} : cause' = c
    /\ UNCHANGED <<root, classified, lastEval, recorded, imageFrom>>

\* Variant of CleanupArtifacts: the os.path.isdir test is missing
CleanupArtifactsRemovesAll ==
    /\ pc = "cleanup"
    /\ root' = {}
    /\ pc' = "classify"
    /\ UNCHANGED <<session, iter, cause, classified, lastEval, recorded, imageFrom>>

\* Variant of CleanupArtifacts: nothing is removed
CleanupArtifactsSkipped ==
    /\ pc = "cleanup"
    /\ pc' = "classify"
    /\ UNCHANGED <<session, iter, extra>>

\* _display_detected_frames, lines 50-60: every entry of runs/detect that is
\* a directory is removed with shutil.rmtree
CleanupArtifacts ==
    /\ pc = "cleanup"
    /\ root' = RemoveDirs(root)
    /\ pc' = "classify"
    /\ UNCHANGED <<session, iter, cause, classified, lastEval, recorded, imageFrom>>

\* os.listdir raises, or one shutil.rmtree raises: the directories listed
\* before it are gone, it and those listed after it stay (os.listdir gives
\* the entries in arbitrary order).  Nothing catches the exception before
\* the outer except Exception of the session.
CleanupArtifactsRaises ==
    /\ pc = "cleanup"
    /\ \E done \in SUBSET Dirs(root) :
          /\ (done # Dirs(root) \/ Dirs(root) = {})
          /\ root' = root \ done
    /\ raised' = "cleanup"
    /\ error' = TRUE
    /\ pc' = "failed"
    /\ UNCHANGED <<clock, timeout, opened, frames, s, n, dcls, detectCls, s0, alerts,
                   elapsed, verdict, sends, uploads, transports, uploadStatus>>
    /\ UNCHANGED <<cause, classified, lastEval, recorded, imageFrom>>

\* detectCls = _display_detected_frames(...) returns res[0].boxes.cls
DisplayDetectedFrames ==
    /\ pc = "classify"
    /\ \E r \in Detections : detectCls' = r
    /\ pc' = "check"
    /\ UNCHANGED <<clock, timeout, opened, frames, s, n, dcls, error, s0, alerts, iter>>
    /\ classified' = classified + 1
    /\ root' = SavePrediction(root)
    /\ UNCHANGED <<cause, lastEval, recorded, imageFrom>>

\* _display_detected_frames raises after the cleanup: in cv2.resize (before
\* the classifier is called), in predict/track, or in plot/st_frame.image
\* (after the image was saved).  The call is outside the inner try, so the
\* outer except Exception ends the session with st.sidebar.error
DisplayDetectedFramesRaises ==
    /\ pc = "classify"
    /\ raised' = "classify"
    /\ error' = TRUE
    /\ pc' = "failed"
    /\ UNCHANGED <<clock, timeout, opened, frames, s, n, dcls, detectCls, s0, alerts,
                   elapsed, verdict, sends, uploads, transports, uploadStatus>>
    /\ \E stage \in {"resize", "predict", "display"} :
          /\ classified' = IF stage = "resize" THEN classified ELSE classified + 1
          /\ root' = IF stage = "display" THEN SavePrediction(root) ELSE root
    /\ UNCHANGED <<cause, lastEval, recorded, imageFrom>>

\* Variant of WindowOpen: s = n is executed before the window test
WindowOpenResets ==
    /\ pc = "check"
    /\ ~Elapsed(n, s, timeout)
    /\ s' = n
    /\ pc' = "record"
    /\ UNCHANGED <<clock, timeout, opened, frames, n, dcls, detectCls, error, s0, alerts, iter>>
    /\ UNCHANGED <<root, cause, classified, lastEval, recorded, imageFrom>>

\* if n-s > settings.timeout: false
WindowOpen ==
    /\ pc = "check"
    /\ ~Elapsed(n, s, timeout)
    /\ pc' = "record"
    /\ UNCHANGED <<session, iter>>
    /\ UNCHANGED <<root, cause, classified, lastEval, recorded, imageFrom>>

\* if n-s > settings.timeout: true; s = n; max(element_counts, ...) on a
\* non-empty window; then the `== 0` test
WindowClose ==
    /\ pc = "check"
    /\ Elapsed(n, s, timeout)
    /\ dcls # <<>>
    /\ s' = n
    /\ elapsed' = TRUE
    /\ verdict' = <<MostCommon(dcls)>>
    /\ pc' = IF MostCommon(dcls) = HazardLabel THEN "alert" ELSE "clear"
    /\ UNCHANGED <<clock, timeout, opened, frames, n, dcls, detectCls, error, s0, alerts,
                   raised, sends, uploads, transports, uploadStatus>>
    /\ lastEval' = <<n>>
    /\ UNCHANGED <<root, cause, classified, recorded, imageFrom>>

\* Variant of WindowCloseEmpty: the ValueError is not caught by the inner try
WindowCloseEmptyCrashes ==
    /\ pc = "check"
    /\ Elapsed(n, s, timeout)
    /\ dcls = <<>>
    /\ s' = n
    /\ elapsed' = TRUE
    /\ raised' = "max"
    /\ error' = TRUE
    /\ pc' = "failed"
    /\ UNCHANGED <<clock, timeout, opened, frames, n, dcls, detectCls, s0, alerts,
                   verdict, sends, uploads, transports, uploadStatus>>
    /\ lastEval' = <<n>>
    /\ UNCHANGED <<root, cause, classified, recorded, imageFrom>>

\* Variant of WindowCloseEmpty: s = n is executed after max(...)
WindowCloseEmptyKeepsStart ==
    /\ pc = "check"
    /\ Elapsed(n, s, timeout)
    /\ dcls = <<>>
    /\ elapsed' = TRUE
    /\ raised' = "max"
    /\ pc' = "loop"
    /\ UNCHANGED <<clock, timeout, opened, frames, s, n, dcls, detectCls, error, s0, alerts,
                   verdict, sends, uploads, transports, uploadStatus>>
    /\ lastEval' = <<n>>
    /\ UNCHANGED <<root, cause, classified, recorded, imageFrom>>

\* if n-s > settings.timeout: true; s = n; max() of an empty Counter raises
\* ValueError, caught by the bare except (print(detectCls))
WindowCloseEmpty ==
    /\ pc = "check"
    /\ Elapsed(n, s, timeout)
    /\ dcls = <<>>
    /\ s' = n
    /\ elapsed' = TRUE
    /\ raised' = "max"
    /\ pc' = "loop"
    /\ UNCHANGED <<clock, timeout, opened, frames, n, dcls, detectCls, error, s0, alerts,
                   verdict, sends, uploads, transports, uploadStatus>>
    /\ lastEval' = <<n>>
    /\ UNCHANGED <<root, cause, classified, recorded, imageFrom>>

\* st.write(...); autoplay_audio(settings.AUDIO_PATH) returns
AutoplayAudio ==
    /\ pc = "alert"
    /\ pc' = "send"
    /\ UNCHANGED <<session, iter>>
    /\ UNCHANGED <<root, cause, classified, lastEval, recorded, imageFrom>>

\* autoplay_audio raises (open(file_path, "rb")): bare except
AutoplayAudioRaises ==
    /\ pc = "alert"
    /\ raised' = "audio"
    /\ pc' = "loop"
    /\ UNCHANGED <<session, elapsed, verdict, sends, uploads, transports, uploadStatus>>
    /\ UNCHANGED <<root, cause, classified, lastEval, recorded, imageFrom>>

\* send_message(): glob(...)[0] and open(image_path, 'rb') succeed
SendMessage ==
    /\ pc = "send"
    /\ sends' = sends + 1
    /\ alerts' = alerts + 1
    /\ pc' = "upload"
    /\ UNCHANGED <<clock, timeout, opened, frames, s, n, dcls, detectCls, error, s0,
                   elapsed, verdict, raised, uploads, transports, uploadStatus>>
    /\ \E img \in PredictImages(root) : imageFrom' = img.from
    /\ UNCHANGED <<root, cause, classified, lastEval, recorded>>

\* send_message(): glob(...)[0] raises IndexError (no image) or open raises;
\* the exception leaves send_message and is caught by the loop's bare except
SendMessageNoImage ==
    /\ pc = "send"
    /\ sends' = sends + 1
    /\ alerts' = alerts + 1
    /\ raised' = "locate"
    /\ pc' = "loop"
    /\ UNCHANGED <<clock, timeout, opened, frames, s, n, dcls, detectCls, error, s0,
                   elapsed, verdict, uploads, transports, uploadStatus>>
    /\ UNCHANGED <<root, cause, classified, lastEval, recorded, imageFrom>>

\* requests.post(...) returned with status_code == 200 and a body holding
\* ['data']['url']
UploadImage ==
    /\ pc = "upload"
    /\ uploads' = uploads + 1
    /\ uploadStatus' = "success"
    /\ pc' = "transport"
    /\ UNCHANGED <<session, elapsed, verdict, raised, sends, transports>>
    /\ UNCHANGED <<root, cause, classified, lastEval, recorded, imageFrom>>

\* Variant of UploadImageRejected: the status code is not tested
UploadImageRejectedStillSends ==
    /\ pc = "upload"
    /\ uploads' = uploads + 1
    /\ uploadStatus' = "failure"
    /\ pc' = "transport"
    /\ UNCHANGED <<session, elapsed, verdict, raised, sends, transports>>
    /\ UNCHANGED <<root, cause, classified, lastEval, recorded, imageFrom>>

\* requests.post(...) returned another status: print("Failed to upload
\* image"), send_message returns
UploadImageRejected ==
    /\ pc = "upload"
    /\ uploads' = uploads + 1
    /\ uploadStatus' = "failure"
    /\ pc' = "clear"
    /\ UNCHANGED <<session, elapsed, verdict, raised, sends, transports>>
    /\ UNCHANGED <<root, cause, classified, lastEval, recorded, imageFrom>>

\* Variant of UploadImageRaises: the exception reaches the outer except
UploadImagePropagates ==
    /\ pc = "upload"
    /\ uploads' = uploads + 1
    /\ uploadStatus' = "raised"
    /\ raised' = "upload"
    /\ error' = TRUE
    /\ pc' = "failed"
    /\ UNCHANGED <<clock, timeout, opened, frames, s, n, dcls, detectCls, s0, alerts,
                   elapsed, verdict, sends, transports>>
    /\ UNCHANGED <<root, cause, classified, lastEval, recorded, imageFrom>>

\* requests.post(...) raises (connection error): nothing in send_message
\* catches it, the loop's bare except does
UploadImageRaises ==
    /\ pc = "upload"
    /\ uploads' = uploads + 1
    /\ uploadStatus' = "raised"
    /\ raised' = "upload"
    /\ pc' = "loop"
    /\ UNCHANGED <<session, elapsed, verdict, sends, transports>>
    /\ UNCHANGED <<root, cause, classified, lastEval, recorded, imageFrom>>

\* client.messages.create(...): it returns, or it raises and send_message's
\* own except Exception prints the error; send_message returns either way
SendWhatsApp ==
    /\ pc = "transport"
    /\ transports' = transports + 1
    /\ \E ok \in BOOLEAN : raised' = IF ok THEN raised ELSE "twilio"
    /\ pc' = "clear"
    /\ UNCHANGED <<session, elapsed, verdict, sends, uploads, uploadStatus>>
    /\ UNCHANGED <<root, cause, classified, lastEval, recorded, imageFrom>>

\* dcls.clear()
ClearWindow ==
    /\ pc = "clear"
    /\ dcls' = <<>>
    /\ pc' = "record"
    /\ UNCHANGED <<clock, timeout, opened, frames, s, n, detectCls, error, s0, alerts, iter>>
    /\ UNCHANGED <<root, cause, classified, lastEval, recorded, imageFrom>>

\* dcls.append(int(detectCls)): int() of a tensor holding exactly one value
RecordLabel ==
    /\ pc = "record"
    /\ Len(detectCls) = 1
    /\ dcls' = Append(dcls, detectCls[1])
    /\ pc' = "loop"
    /\ UNCHANGED <<clock, timeout, opened, frames, s, n, detectCls, error, s0, alerts, iter>>
    /\ recorded' = recorded + 1
    /\ UNCHANGED <<root, cause, classified, lastEval, imageFrom>>

\* int(detectCls) raises for a tensor holding no value or several: bare
\* except, print(detectCls)
RecordLabelRaises ==
    /\ pc = "record"
    /\ Len(detectCls) # 1
    /\ raised' = "int"
    /\ pc' = "loop"
    /\ UNCHANGED <<session, elapsed, verdict, sends, uploads, transports, uploadStatus>>
    /\ UNCHANGED <<root, cause, classified, lastEval, recorded, imageFrom>>

Next ==
    \/ Start
    \/ OpenSource
    \/ OpenSourceRaises
    \/ LoopTest
    \/ LoopExit
    \/ ReadFrame
    \/ ReadFail
    \/ CleanupArtifacts
    \/ CleanupArtifactsRaises
    \/ DisplayDetectedFrames
    \/ DisplayDetectedFramesRaises
    \/ WindowOpen
    \/ WindowClose
    \/ WindowCloseEmpty
    \/ AutoplayAudio
    \/ AutoplayAudioRaises
    \/ SendMessage
    \/ SendMessageNoImage
    \/ UploadImage
    \/ UploadImageRejected
    \/ UploadImageRaises
    \/ SendWhatsApp
    \/ ClearWindow
    \/ RecordLabel
    \/ RecordLabelRaises

Spec == Init /\ [][Next]_vars

\* ------------------------------------------------------------ properties

\* The try block of the iteration has passed the verdict test and whatever
\* dispatch followed it
EvaluationDone == pc \in {"clear", "record", "loop"}

\* The dispatch of this iteration was skipped over by an exception
DispatchRaised == raised \in {"audio", "locate", "upload"}

\* C1: with hazard label 0, an evaluation whose verdict is 0 invokes
\* send_message exactly once, an evaluation with another verdict (or none)
\* invokes it zero times, and nothing else invokes it.
C1_HazardVerdictDispatchesOnce ==
    /\ (EvaluationDone /\ verdict = <<HazardLabel>>) => sends = 1
    /\ verdict # <<HazardLabel>> => sends = 0
    /\ sends <= 1

\* C2: the verdict of a non-empty window is a label of the highest count in
\* the window, and among the labels of that count the one recorded first.
\* (dcls still holds the evaluated window at these positions.)
C2_VerdictIsFirstMostFrequent ==
    (verdict # <<>> /\ pc \in {"alert", "send", "upload", "transport", "clear"}) =>
        LET v == verdict[1] IN
        /\ Count(dcls, v) >= 1
        /\ \A i \in 1..Len(dcls) :
              /\ Count(dcls, dcls[i]) <= Count(dcls, v)
              /\ (dcls[i] # v /\ Count(dcls, dcls[i]) = Count(dcls, v))
                    => FirstIndex(dcls, v) < FirstIndex(dcls, dcls[i])

\* C2 witness: a tie between two labels, decided for the one recorded first,
\* which is not the smaller one
C2_Witness ==
    /\ pc = "clear"
    /\ verdict = <<1>>
    /\ Len(dcls) >= 4
    /\ dcls[1] = 1
    /\ Count(dcls, 0) = Count(dcls, 1)

\* C3: after every evaluation that produced a verdict the window is empty
\* and window_start is the iteration's now, whatever the dispatch did.
\* (pc = "record": the try block is about to record the frame's label;
\* pc = "loop" after an exception in the dispatch: the iteration is over.)
C3_WindowResetAfterVerdict ==
    (verdict # <<>> /\ (pc = "record" \/ (pc = "loop" /\ DispatchRaised)))
        => (dcls = <<>> /\ s = n)

\* C4: an iteration with n - s <= timeout (equality included) returns no
\* verdict, fires no alert and leaves dcls and s as they were; after it only
\* the record of the frame's label changes the window.
C4_OpenWindowUntouched ==
    [][ /\ (pc = "check" /\ n - s <= timeout) =>
            /\ pc' = "record"
            /\ dcls' = dcls /\ s' = s
            /\ verdict' = <<>> /\ elapsed' = FALSE
            /\ sends' = 0 /\ alerts' = alerts
        /\ (pc = "record" /\ ~elapsed) =>
            /\ pc' = "loop"
            /\ s' = s /\ verdict' = <<>> /\ sends' = 0 /\ alerts' = alerts
            /\ \/ dcls' = dcls
               \/ \E l \in Labels : dcls' = Append(dcls, l) ]_vars

\* C4 witness: the window test was made at exact equality on a non-empty
\* window and left it open
C4_Witness ==
    /\ pc = "record"
    /\ ~elapsed
    /\ n - s = timeout
    /\ Len(dcls) >= 2

\* Every frame read so far recorded one label, and the hazard label has the
\* majority of them
HazardMajority ==
    /\ Len(dcls) = frames
    /\ 2 * Count(dcls, HazardLabel) > Len(dcls)

\* C5 (as claimed): a finite stream whose frames all lie within one window
\* and whose labels are majority hazard ends with exactly one alert.
C5_OneAlertAtEndOfStream ==
    (pc = "completed" /\ frames >= 1 /\ clock - s0 <= timeout /\ HazardMajority)
        => alerts = 1

\* C5 (amended): while every frame lies within the session's first window,
\* no evaluation happens and no alert is dispatched, also once the stream
\* has ended: end of stream does not evaluate the open window.
C5_NoAlertInsideOneWindow ==
    (clock - s0 <= timeout) => (alerts = 0 /\ sends = 0 /\ ~elapsed /\ s = s0)

\* C5 witness: the stream ended inside the first window with a hazard
\* majority recorded, and no alert
C5_Witness ==
    /\ pc = "completed"
    /\ clock - s0 <= timeout
    /\ frames >= 5
    /\ HazardMajority
    /\ Count(dcls, 1) >= 2
    /\ alerts = 0

\* The window of the scenario: labels 0,0,0,1,1 recorded since window_start 0
ScenarioWindow == <<0, 0, 0, 1, 1>>

\* C6 (as claimed): with window_start 0 and duration 5, the evaluation at
\* now = 5 of the window [0,0,0,1,1] closes it with verdict 0.
C6_ClosesAtFive ==
    [][ (pc = "check" /\ timeout = 5 /\ s = 0 /\ n = 5 /\ dcls = ScenarioWindow)
            => (elapsed' /\ verdict' = <<0>> /\ s' = 5) ]_vars

\* C6 (amended): the evaluation at now = 5 leaves that window open and
\* yields no verdict; the window closes at the first frame with now > 5,
\* with verdict 0, whatever label the frame at 5 recorded.
C6_ClosesAfterFive ==
    [][ (/\ pc = "check" /\ timeout = 5 /\ s = 0
         /\ Len(dcls) \in {5, 6} /\ SubSeq(dcls, 1, 5) = ScenarioWindow) =>
            IF n <= 5
            THEN /\ pc' = "record" /\ ~elapsed' /\ verdict' = <<>>
                 /\ dcls' = dcls /\ s' = 0
            ELSE /\ pc' = "alert" /\ elapsed' /\ verdict' = <<0>>
                 /\ dcls' = dcls /\ s' = n ]_vars

\* C6 witness: that window was left open at 5 and closed at 6 with verdict 0
C6_Witness ==
    /\ pc = "alert"
    /\ timeout = 5 /\ n = 6 /\ s = 6 /\ s0 = 0
    /\ frames = 7
    /\ Len(dcls) = 6 /\ SubSeq(dcls, 1, 5) = ScenarioWindow
    /\ verdict = <<0>>

\* C7: when classifying a frame raises, the session is not aborted: the
\* frame is skipped and the loop goes on.
C7_ClassifierErrorSkipsFrame ==
    raised = "classify" => (pc \in {"loop", "read"} /\ ~error)

\* The dispatch of this iteration failed: no image, upload refused or
\* raised, or the message transport raised
DispatchFailed ==
    \/ raised \in {"locate", "upload", "twilio"}
    \/ uploadStatus = "failure"

\* C8: a failed dispatch is dropped without retry, raises nothing to the
\* session's caller, and the loop goes on with the next frame.
C8_DispatchFailureContained ==
    DispatchFailed =>
        /\ pc \in {"clear", "record", "loop"}
        /\ opened /\ ~error
        /\ sends = 1 /\ uploads <= 1 /\ transports <= 1

\* C8 witness: the upload raised and the loop is back at its head
C8_Witness ==
    /\ pc = "loop"
    /\ raised = "upload"
    /\ opened

\* C9: a window that elapses empty gives no verdict and no alert, and the
\* loop goes on with the next frame.
C9_EmptyWindowNoVerdict ==
    (elapsed /\ verdict = <<>>) =>
        /\ raised = "max"
        /\ pc = "loop"
        /\ opened /\ ~error
        /\ sends = 0
        /\ dcls = <<>>

\* C9 witness: a window elapsed empty after frames without a recordable label
C9_Witness ==
    /\ elapsed
    /\ verdict = <<>>
    /\ frames >= 2
    /\ pc = "loop"

\* C10: within one send_message, the message transport is called at most
\* once, only after an upload that returned success, and never after an
\* upload that did not.
C10_TransportOnlyAfterUpload ==
    /\ transports <= 1
    /\ pc = "transport" => (uploadStatus = "success" /\ transports = 0)
    /\ transports = 1 => (uploadStatus = "success" /\ uploads = 1)
    /\ uploadStatus \in {"failure", "raised"} => (transports = 0 /\ pc # "transport")

\* C10 witness: send_message returned after a refused upload
C10_Witness ==
    /\ uploadStatus = "failure"
    /\ pc = "record"
    /\ sends = 1
    /\ transports = 0

\* C11: a session ends completed only on clean end of stream; when the
\* source cannot be opened or a read fails for a source error it ends
\* failed, with the failure surfaced.
C11_SourceFailureEndsFailed ==
    /\ pc = "completed" => cause = "eof"
    /\ (pc \in {"completed", "failed"} /\ cause \in {"not_opened", "read_error"})
            => (pc = "failed" /\ error)
    /\ pc = "failed" => error

\* C12: exhaustion on the very first read ends the session completed, with
\* no classifier call and no alert dispatch.
C12_ImmediateExhaustion ==
    (cause = "eof" /\ frames = 0) =>
        /\ pc = "completed"
        /\ ~opened /\ ~error
        /\ classified = 0
        /\ alerts = 0 /\ sends = 0
        /\ dcls = <<>>

\* C12 witness: the first read signalled exhaustion and the session is over
C12_Witness ==
    /\ pc = "completed"
    /\ cause = "eof"
    /\ frames = 0
    /\ classified = 0

\* C13: when the deletion of one subdirectory fails, every sibling
\* subdirectory is still deleted and the session goes on.
C13_CleanupFailureIsolated ==
    raised = "cleanup" =>
        /\ pc # "failed" /\ ~error
        /\ Cardinality(Dirs(root)) <= 1

\* C14: a cleanup that runs to its end removes every directory directly
\* under the root and leaves every file there untouched; on a root without
\* directories, such as its own result, it changes nothing.
C14_CleanupRemovesDirectoriesOnly ==
    [][ (pc = "cleanup" /\ pc' = "classify") =>
            /\ Dirs(root') = {}
            /\ Files(root') = Files(root)
            /\ root' \subseteq root
            /\ Dirs(root) = {} => root' = root
            /\ RemoveDirs(root') = root' ]_vars

\* C14 witness: the cleanup of the second frame removed the directory the
\* first frame's classification wrote, and kept the file
C14_Witness ==
    /\ pc = "classify"
    /\ frames = 2
    /\ classified = 1
    /\ root = {Entry("labels.txt", "file", "earlier")}

\* C15: the label of the frame at which a window closes is recorded before
\* the window test, so it is counted in the verdict of the closing window.
C15_ClosingFrameCounted ==
    [][ (/\ pc = "check" /\ n - s > timeout
         /\ dcls # <<>> /\ Len(detectCls) = 1) =>
            verdict' = <<MostCommon(Append(dcls, detectCls[1]))>> ]_vars

\* C16: at the end of every iteration, exactly one label (the first of the
\* frame's detections) was appended when the frame carried one or more
\* labels, and none when it carried none.
C16_OneLabelPerClassifiedFrame ==
    pc = "loop" =>
        /\ recorded = IF Len(detectCls) >= 1 THEN 1 ELSE 0
        /\ recorded = 1 => (dcls # <<>> /\ dcls[Len(dcls)] = detectCls[1])

\* C17: labels never carry across windows: once an iteration has reset
\* window_start, the window holds only what that iteration recorded.
C17_NoLabelCarriedAcrossWindows ==
    (pc = "loop" /\ elapsed) => Len(dcls) = recorded

\* C18: two consecutive window evaluations are more than the window
\* duration apart (the first one more than that after the session start),
\* whatever the earlier one ended in.
C18_EvaluationsSpacedByWindow ==
    [][ (~elapsed /\ elapsed') =>
            /\ lastEval' = <<n>>
            /\ lastEval = <<>> => n - s0 > timeout
            /\ lastEval # <<>> => n - lastEval[1] > timeout ]_vars

\* C18 witness: a second hazard verdict, after an evaluation that dispatched
C18_Witness ==
    /\ pc = "alert"
    /\ elapsed
    /\ alerts = 1
    /\ lastEval = <<n>>

\* C19: no alert is dispatched for a window in which only one frame
\* recorded the hazard label.  (dcls still holds the evaluated window at
\* these positions.)
C19_SingleHazardFrameNeverAlerts ==
    (sends = 1 /\ pc \in {"upload", "transport", "clear"})
        => Count(dcls, HazardLabel) >= 2

\* C20: the cleanup has removed every directory of the root before a frame
\* is classified, and the image send_message reads was written by this
\* session's classifier, never by an earlier session.
C20_DispatchReadsSessionImage ==
    /\ pc = "classify" => Dirs(root) = {}
    /\ pc \in {"check", "record", "alert", "send", "upload", "transport", "clear"}
            => (PredictImages(root) # {} /\ \A e \in Dirs(root) : e.from = "session")
    /\ imageFrom # "earlier"
    /\ pc \in {"upload", "transport"} => imageFrom = "session"

\* C20 witness: send_message found this session's image in a root that
\* started with directories of an earlier session
C20_Witness ==
    /\ pc = "upload"
    /\ imageFrom = "session"
    /\ sends = 1
    /\ frames >= 2

====
